---- MODULE Spec2Model ----
(***************************************************************************)
(* The todo service: the five route handlers of the HTTP API over the      *)
(* todos table.  One step of specification Spec is one HTTP request        *)
(* handled to completion: the handler reads the request, issues its one    *)
(* SQL statement through pool.query and sends its response.  SpecRace      *)
(* takes two handlers apart at their await, and SpecClient puts the React  *)
(* client in front of the service.                                         *)
(*                                                                         *)
(* Column values are written in their SQL text form ("true"/"false" for    *)
(* BOOLEAN); NULL is the SQL null and Undefined the JavaScript undefined   *)
(* of a key that the request body does not have.                           *)
(***************************************************************************)
EXTENDS Integers, Sequences, FiniteSets, TLC

VARIABLES
    todos,      \* the rows of table todos
    seq,        \* last value handed out by the sequence behind todo_id SERIAL
    now,        \* the store clock read by CURRENT_TIMESTAMP
    req,        \* the request handled last
    res,        \* the response object of that request
    before,     \* the rows of the table when that request arrived
    rejected,   \* whether pool.query rejected while that request was handled
    created,    \* history: ids returned by a successful Create
    returned,   \* history: those ids in the order the Creates returned them
    deleted,    \* history: ids of rows that a successful Delete was sent for
    submitted,  \* history: id -> the four fields sent to the Create that made it,
                \*          until an Update or Delete is sent for that id
    flight,     \* two requests in flight at once: where each handler stands
    ran,        \* history: the order in which the store ran their statements
    app,        \* the App component: its todos, loading and error
    form,       \* the TodoForm component: its formData and isSubmitting
    refused,    \* history: the formData of a submit that was turned down, as
                \*          long as nothing is entered after it
    filters,    \* the App component: its searchTerm, filterPriority, filterCategory
    net,        \* the calls of todoAPI that have not settled, in the order sent
    lists,      \* history: how many times the client asked for the list
    sentOps,    \* history: the operations the client has asked the service for
    last,       \* history: the call that settled last, with its response
    prev,       \* history: the todos of App before that call settled
    columns,    \* the columns of table todos; none when there is no such table
    mig         \* the migrate script: where it stands and what it has read

vars == <<todos, seq, now, req, res, before, rejected, created, returned, deleted,
          submitted, flight, ran, app, form, refused, filters, net, lists,
          sentOps, last, prev, columns, mig>>

\* the state of the service taken one request at a time
serviceVars == <<todos, seq, now, req, res, before, rejected, created, returned,
                 deleted, submitted>>

\* the state added for two requests in flight at once
raceVars == <<flight, ran>>

\* the state of the client
clientVars == <<app, form, refused, filters, net, lists, sentOps, last, prev>>

\* the schema of the table and the state of the migrate script
migrateVars == <<columns, mig>>

-----------------------------------------------------------------------------
(* Bounds *)

\* number of values the todo_id sequence hands out (INSERT attempts)
MaxSeq == 2

-----------------------------------------------------------------------------
(* Values *)

Undefined == "undefined"
NULL == "NULL"

Keys == {"title", "description", "priority", "category", "completed"}

\* testTodos.validTodo, with the completed a new row has
validTodo ==
    [title |-> "Test Todo", description |-> "This is a test todo",
     priority |-> "high", category |-> "testing", completed |-> "false"]

\* updateData of the integration tests
updateData ==
    [title |-> "Updated Title", description |-> "Updated Description",
     priority |-> "low", category |-> "updated", completed |-> "true"]

\* The key sets of the request bodies: every body that lacks at most one of
\* the five keys, every body over title and description alone (minimalTodo,
\* invalidTodo, the empty body) and the partial update {title, completed}.
Shapes ==
    {S \in SUBSET Keys :
        \/ Cardinality(S) >= 4
        \/ S \subseteq {"title", "description"}
        \/ S = {"title", "completed"}}

\* the bodies sent to POST /todos carry the values of validTodo
CreateBodies ==
    {[k \in S |-> validTodo[k]] : S \in {T \in Shapes : "completed" \notin T}}

\* the bodies sent to PUT /todos/:id carry the values of updateData
UpdateBodies == {[k \in S |-> updateData[k]] : S \in Shapes}

NoBody == [k \in {} |-> Undefined]

\* req.params.id as it arrives in the path: a string
IdParams == {ToString(n) : n \in 1..MaxSeq} \cup {"invalid"}

DbStates == {"up", "down"}

-----------------------------------------------------------------------------
(* The request body and the query parameters *)

\* const { k } = req.body
Field(body, k) == IF k \in DOMAIN body THEN body[k] ELSE Undefined

\* mutant: the destructuring has no default
FieldOr_NoDefault(body, k, dflt) == Field(body, k)

\* const { k = dflt } = req.body
FieldOr(body, k, dflt) == IF Field(body, k) = Undefined THEN dflt ELSE body[k]

\* pg sends an undefined parameter as NULL
PrepareValue(v) == IF v = Undefined THEN NULL ELSE v

-----------------------------------------------------------------------------
(* The Record Store: table todos and the statements run against it *)

\* todo_id = $1 with $1 a text parameter: the store parses it as an integer
NumericIds == 1..MaxSeq
IsInt4(s) == \E n \in NumericIds : ToString(n) = s
Int4In(s) == CHOOSE n \in NumericIds : ToString(n) = s

\* mutant: the table has no NOT NULL constraint at all
NotNullViolated_Never(row) == FALSE

\* mutant: description is declared without NOT NULL
NotNullViolated_TitleOnly(row) == row.title = NULL

\* title VARCHAR(255) NOT NULL, description VARCHAR(255) NOT NULL
NotNullViolated(row) == row.title = NULL \/ row.description = NULL

\* todo_id SERIAL PRIMARY KEY
PrimaryKeyViolated(tbl, row) == \E r \in tbl : r.todo_id = row.todo_id

\* a statement that failed: no rows, the table as it was
QueryError(tbl, sq) == [err |-> TRUE, rows |-> {}, table |-> tbl, seq |-> sq]

\* mutant: the priority and category parameters are bound the wrong way round
NewRow_Swapped(sq, clock, params) ==
    [todo_id |-> sq + 1,
     title |-> params[1], description |-> params[2],
     priority |-> params[4], category |-> params[3],
     completed |-> "false", created_at |-> clock]

\* the row INSERT INTO todos (title, description, priority, category) builds:
\* the sequence gives todo_id, the column defaults give completed and created_at
NewRow(sq, clock, params) ==
    [todo_id |-> sq + 1,
     title |-> params[1], description |-> params[2],
     priority |-> params[3], category |-> params[4],
     completed |-> "false", created_at |-> clock]

\* mutant: todo_id is taken from the number of rows, not from the sequence
Insert_CountRows(tbl, sq, clock, params) ==
    LET row == NewRow(Cardinality(tbl), clock, params)
    IN  IF NotNullViolated(row) \/ PrimaryKeyViolated(tbl, row)
        THEN QueryError(tbl, sq + 1)
        ELSE [err |-> FALSE, rows |-> {row}, table |-> tbl \cup {row}, seq |-> sq + 1]

\* INSERT INTO todos (...) VALUES ($1, $2, $3, $4) RETURNING *
\* the sequence value is used up whether or not the row passes the constraints
Insert(tbl, sq, clock, params) ==
    LET row == NewRow(sq, clock, params)
    IN  IF NotNullViolated(row) \/ PrimaryKeyViolated(tbl, row)
        THEN QueryError(tbl, sq + 1)
        ELSE [err |-> FALSE, rows |-> {row}, table |-> tbl \cup {row}, seq |-> sq + 1]

\* SELECT * FROM todos
SelectAll(tbl, sq) == [err |-> FALSE, rows |-> tbl, table |-> tbl, seq |-> sq]

\* mutant: the SELECT has no WHERE clause
SelectById_NoWhere(tbl, sq, id) ==
    IF ~IsInt4(id) THEN QueryError(tbl, sq)
    ELSE [err |-> FALSE, rows |-> tbl, table |-> tbl, seq |-> sq]

\* SELECT * FROM todos WHERE todo_id = $1
SelectById(tbl, sq, id) ==
    IF ~IsInt4(id) THEN QueryError(tbl, sq)
    ELSE [err |-> FALSE, rows |-> {r \in tbl : r.todo_id = Int4In(id)},
          table |-> tbl, seq |-> sq]

\* mutant: SET column = COALESCE($n, column), an omitted field keeps its value
UpdatedRow_KeepOmitted(r, params) ==
    [r EXCEPT !.title = IF params[1] = NULL THEN @ ELSE params[1],
              !.description = IF params[2] = NULL THEN @ ELSE params[2],
              !.priority = IF params[3] = NULL THEN @ ELSE params[3],
              !.category = IF params[4] = NULL THEN @ ELSE params[4],
              !.completed = IF params[5] = NULL THEN @ ELSE params[5]]

\* the row UPDATE todos SET title = $1, description = $2, priority = $3,
\* category = $4, completed = $5 leaves in place of r
UpdatedRow(r, params) ==
    [r EXCEPT !.title = params[1], !.description = params[2],
              !.priority = params[3], !.category = params[4],
              !.completed = params[5]]

\* mutant: the UPDATE has no WHERE clause
Update_NoWhere(tbl, sq, params, id) ==
    IF ~IsInt4(id) THEN QueryError(tbl, sq)
    ELSE LET new == {UpdatedRow(r, params) : r \in tbl}
         IN  IF \E r \in new : NotNullViolated(r)
             THEN QueryError(tbl, sq)
             ELSE [err |-> FALSE, rows |-> {}, table |-> new, seq |-> sq]

\* UPDATE todos SET ... WHERE todo_id = $6
Update(tbl, sq, params, id) ==
    IF ~IsInt4(id) THEN QueryError(tbl, sq)
    ELSE LET hit == {r \in tbl : r.todo_id = Int4In(id)}
             new == {UpdatedRow(r, params) : r \in hit}
         IN  IF \E r \in new : NotNullViolated(r)
             THEN QueryError(tbl, sq)
             ELSE [err |-> FALSE, rows |-> {}, table |-> (tbl \ hit) \cup new,
                   seq |-> sq]

\* mutant: the DELETE has no WHERE clause
Delete_NoWhere(tbl, sq, id) ==
    IF ~IsInt4(id) THEN QueryError(tbl, sq)
    ELSE [err |-> FALSE, rows |-> {}, table |-> {}, seq |-> sq]

\* DELETE FROM todos WHERE todo_id = $1
Delete(tbl, sq, id) ==
    IF ~IsInt4(id) THEN QueryError(tbl, sq)
    ELSE [err |-> FALSE, rows |-> {},
          table |-> {r \in tbl : r.todo_id # Int4In(id)}, seq |-> sq]

\* await pool.query(...): the statement's outcome, or a rejection that leaves
\* the store alone when the store cannot be reached
PoolQuery(db, tbl, sq, outcome) == IF db = "down" THEN QueryError(tbl, sq) ELSE outcome

-----------------------------------------------------------------------------
(* The response object of a handler *)

ResNew == [sent |-> 0, status |-> 200, body |-> [t |-> "none"]]

JsonUndefined == [t |-> "undefined"]
JsonObject(o) == [t |-> "object", v |-> o]
JsonArray(a) == [t |-> "array", v |-> a]
Text(s) == [t |-> "text", v |-> s]

\* res.status(code)
ResStatus(r, code) == [r EXCEPT !.status = code]

\* res.json(value)
ResJson(r, value) == [r EXCEPT !.sent = @ + 1, !.body = value]

\* res.send(text)
ResSend(r, text) == [r EXCEPT !.sent = @ + 1, !.body = Text(text)]

\* mutant: the catch block sends the text without setting the status
ServerError_NoStatus(r) == ResSend(r, "Server Error")

\* the catch block of every handler
ServerError(r) == ResSend(ResStatus(r, 500), "Server Error")

\* result.rows[0]
Rows0(rows) ==
    IF rows = {} THEN JsonUndefined ELSE JsonObject(CHOOSE r \in rows : TRUE)

\* the orders in which a SELECT without ORDER BY may return the rows
Orders(rows) ==
    {o \in [1..Cardinality(rows) -> rows] :
        \A i, j \in 1..Cardinality(rows) : i # j => o[i] # o[j]}

Request(op, id, body, db) == [op |-> op, id |-> id, body |-> body, db |-> db]

-----------------------------------------------------------------------------
(* The state after construction: the table exists and is empty *)

\* a call of todoAPI: its kind ("fetch", "create", "done"), the id and the
\* body it carries, whether the service has answered it, and the answer
Call(kind, id, body) ==
    [kind |-> kind, id |-> id, body |-> body, pc |-> "sent", res |-> ResNew]
NoCall == Call("none", 0, NoBody)

\* useState(null) of error
NoError == "null"

\* useState('') of searchTerm, useState('all') of the two filters
NoFilters == [searchTerm |-> "", filterPriority |-> "all", filterCategory |-> "all"]

\* useState({ title: '', description: '', priority: 'medium', category: 'general' })
EmptyForm == [title |-> "", description |-> "", priority |-> "medium",
              category |-> "general"]

\* the columns of CREATE TABLE todos
Columns ==
    {"todo_id", "title", "description", "priority", "category", "completed",
     "created_at"}

\* the migrate script before it is started
NotRun == [pc |-> "none", tableExists |-> FALSE, testResult |-> {}, columns |-> {}]

\* the two requests of a race, and a handler that has not been entered
Slots == {"put", "del"}
Idle == [pc |-> "idle", id |-> "", body |-> NoBody, err |-> FALSE, res |-> ResNew]

Init ==
    /\ todos = {}
    /\ seq = 0
    /\ now = 0
    /\ req = Request("none", "", NoBody, "up")
    /\ res = ResNew
    /\ before = {}
    /\ rejected = FALSE
    /\ created = {}
    /\ returned = <<>>
    /\ deleted = {}
    /\ submitted = [i \in {} |-> NoBody]
    /\ flight = [k \in Slots |-> Idle]
    /\ ran = <<>>
    /\ app = [todos |-> <<>>, loading |-> TRUE, error |-> NoError]
    /\ form = [formData |-> EmptyForm, isSubmitting |-> FALSE]
    /\ refused = {}
    /\ filters = NoFilters
    /\ net = <<>>
    /\ lists = 0
    /\ sentOps = {}
    /\ last = NoCall
    /\ prev = <<>>
    /\ columns = Columns
    /\ mig = NotRun

-----------------------------------------------------------------------------
(* The route handlers *)

\* app.post('/todos')
PostTodos(body, db) ==
    /\ seq < MaxSeq
    /\ LET title == Field(body, "title")
           description == Field(body, "description")
           priority == FieldOr(body, "priority", "medium")
           category == FieldOr(body, "category", "general")
           newTodo == PoolQuery(db, todos, seq,
                        Insert(todos, seq, now,
                               <<PrepareValue(title), PrepareValue(description),
                                 PrepareValue(priority), PrepareValue(category)>>))
       IN  /\ todos' = newTodo.table
           /\ seq' = newTodo.seq
           /\ now' = IF db = "up" THEN now + 1 ELSE now
           /\ res' = IF newTodo.err THEN ServerError(ResNew)
                     ELSE ResJson(ResNew, Rows0(newTodo.rows))
           /\ rejected' = newTodo.err
           /\ created' = IF res'.status = 200 /\ res'.body.t = "object"
                         THEN created \cup {res'.body.v.todo_id}
                         ELSE created
           /\ returned' = IF res'.status = 200 /\ res'.body.t = "object"
                          THEN Append(returned, res'.body.v.todo_id)
                          ELSE returned
           /\ submitted' =
                IF newTodo.err \/ ~({"title", "description", "priority", "category"}
                                        \subseteq DOMAIN body)
                THEN submitted
                ELSE LET id == (CHOOSE r \in newTodo.rows : TRUE).todo_id
                     IN  [i \in DOMAIN submitted \cup {id} |->
                            IF i = id
                            THEN [k \in {"title", "description", "priority", "category"}
                                    |-> body[k]]
                            ELSE submitted[i]]
    /\ req' = Request("POST /todos", "", body, db)
    /\ before' = todos
    /\ UNCHANGED deleted

\* app.get('/todos')
GetTodos(db) ==
    /\ LET allTodos == PoolQuery(db, todos, seq, SelectAll(todos, seq))
       IN  \E order \in Orders(allTodos.rows) :
             /\ res' = IF allTodos.err THEN ServerError(ResNew)
                       ELSE ResJson(ResNew, JsonArray(order))
             /\ rejected' = allTodos.err
    /\ req' = Request("GET /todos", "", NoBody, db)
    /\ before' = todos
    /\ UNCHANGED <<todos, seq, now, created, returned, deleted, submitted>>

\* app.get('/todos/:id')
GetTodo(id, db) ==
    /\ LET todo == PoolQuery(db, todos, seq, SelectById(todos, seq, id))
       IN  /\ res' = IF todo.err THEN ServerError(ResNew)
                     ELSE ResJson(ResNew, Rows0(todo.rows))
           /\ rejected' = todo.err
    /\ req' = Request("GET /todos/:id", id, NoBody, db)
    /\ before' = todos
    /\ UNCHANGED <<todos, seq, now, created, returned, deleted, submitted>>

\* the rows a path id names
Matches(tbl, id) == {r \in tbl : ToString(r.todo_id) = id}

\* history: an Update or a Delete was sent for this id
Forget(id) ==
    [i \in {j \in DOMAIN submitted : ToString(j) # id} |-> submitted[i]]

\* app.put('/todos/:id')
PutTodo(id, body, db) ==
    /\ LET title == Field(body, "title")
           description == Field(body, "description")
           priority == Field(body, "priority")
           category == Field(body, "category")
           completed == Field(body, "completed")
           result == PoolQuery(db, todos, seq,
                        Update(todos, seq,
                               <<PrepareValue(title), PrepareValue(description),
                                 PrepareValue(priority), PrepareValue(category),
                                 PrepareValue(completed)>>, id))
       IN  /\ todos' = result.table
           /\ res' = IF result.err THEN ServerError(ResNew)
                     ELSE ResJson(ResNew,
                                  JsonObject([message |-> "Todo updated successfully"]))
           /\ rejected' = result.err
    /\ req' = Request("PUT /todos/:id", id, body, db)
    /\ before' = todos
    /\ submitted' = Forget(id)
    /\ UNCHANGED <<seq, now, created, returned, deleted>>

\* app.delete('/todos/:id')
DeleteTodo(id, db) ==
    /\ LET result == PoolQuery(db, todos, seq, Delete(todos, seq, id))
       IN  /\ todos' = result.table
           /\ res' = IF result.err THEN ServerError(ResNew)
                     ELSE ResJson(ResNew,
                                  JsonObject([message |-> "Todo deleted successfully"]))
           /\ rejected' = result.err
           /\ deleted' = IF res'.status = 200
                         THEN deleted \cup {r.todo_id : r \in Matches(todos, id)}
                         ELSE deleted
    /\ req' = Request("DELETE /todos/:id", id, NoBody, db)
    /\ before' = todos
    /\ submitted' = Forget(id)
    /\ UNCHANGED <<seq, now, created, returned>>

Next ==
    \/ \E body \in CreateBodies, db \in DbStates :
          PostTodos(body, db) /\ UNCHANGED <<raceVars, clientVars, migrateVars>>
    \/ \E db \in DbStates :
          GetTodos(db) /\ UNCHANGED <<raceVars, clientVars, migrateVars>>
    \/ \E id \in IdParams, db \in DbStates :
          GetTodo(id, db) /\ UNCHANGED <<raceVars, clientVars, migrateVars>>
    \/ \E id \in IdParams, body \in UpdateBodies, db \in DbStates :
          PutTodo(id, body, db) /\ UNCHANGED <<raceVars, clientVars, migrateVars>>
    \/ \E id \in IdParams, db \in DbStates :
          DeleteTodo(id, db) /\ UNCHANGED <<raceVars, clientVars, migrateVars>>

Spec == Init /\ [][Next]_vars

-----------------------------------------------------------------------------
(* An Update and a Delete in flight at once.  Each handler runs up to its
   await, the store runs the two statements one at a time in an order of its
   own, and each handler resumes with the outcome of its statement. *)

\* the tables the service can hold when the race begins: rows 1 .. MaxSeq as
\* Create made them, some of them deleted since
RaceRow(n) ==
    NewRow(n - 1, n, <<validTodo.title, validTodo.description,
                       validTodo.priority, validTodo.category>>)
RaceTables == {{RaceRow(n) : n \in S} : S \in SUBSET (1..MaxSeq)}

RaceInit ==
    /\ todos \in RaceTables
    /\ before = todos
    /\ seq = MaxSeq
    /\ now = MaxSeq
    /\ req = Request("none", "", NoBody, "up")
    /\ res = ResNew
    /\ rejected = FALSE
    /\ created = {}
    /\ returned = <<>>
    /\ deleted = {}
    /\ submitted = [i \in {} |-> NoBody]
    /\ flight = [k \in Slots |-> Idle]
    /\ ran = <<>>
    /\ app = [todos |-> <<>>, loading |-> TRUE, error |-> NoError]
    /\ form = [formData |-> EmptyForm, isSubmitting |-> FALSE]
    /\ refused = {}
    /\ filters = NoFilters
    /\ net = <<>>
    /\ lists = 0
    /\ sentOps = {}
    /\ last = NoCall
    /\ prev = <<>>
    /\ columns = Columns
    /\ mig = NotRun

\* the handler is entered and runs up to await pool.query(...)
RaceArrive(k, id, body) ==
    /\ flight[k].pc = "idle"
    /\ flight' = [flight EXCEPT ![k] = [@ EXCEPT !.pc = "query", !.id = id,
                                                 !.body = body]]
    /\ UNCHANGED <<serviceVars, ran>>

\* the statement of request k, run by the store on the table as it is now
RaceStatement(k, tbl, sq) ==
    IF k = "put"
    THEN LET body == flight[k].body
         IN  Update(tbl, sq,
                    <<PrepareValue(Field(body, "title")),
                      PrepareValue(Field(body, "description")),
                      PrepareValue(Field(body, "priority")),
                      PrepareValue(Field(body, "category")),
                      PrepareValue(Field(body, "completed"))>>, flight[k].id)
    ELSE Delete(tbl, sq, flight[k].id)

\* the store runs the statement of request k as one step
RaceQuery(k) ==
    /\ flight[k].pc = "query"
    /\ LET result == PoolQuery("up", todos, seq, RaceStatement(k, todos, seq))
       IN  /\ todos' = result.table
           /\ flight' = [flight EXCEPT ![k] = [@ EXCEPT !.pc = "await",
                                                        !.err = result.err]]
    /\ ran' = Append(ran, k)
    /\ UNCHANGED <<seq, now, req, res, before, rejected, created, returned, deleted,
                   submitted>>

\* the handler resumes after its await and answers
RaceRespond(k) ==
    /\ flight[k].pc = "await"
    /\ flight' = [flight EXCEPT ![k] =
                     [@ EXCEPT !.pc = "done",
                               !.res = IF flight[k].err THEN ServerError(ResNew)
                                       ELSE ResJson(ResNew,
                                              JsonObject([message |->
                                                 IF k = "put"
                                                 THEN "Todo updated successfully"
                                                 ELSE "Todo deleted successfully"]))]]
    /\ UNCHANGED <<serviceVars, ran>>

RaceNext ==
    \/ \E id \in IdParams, body \in UpdateBodies :
          RaceArrive("put", id, body) /\ UNCHANGED <<clientVars, migrateVars>>
    \/ \E id \in IdParams :
          RaceArrive("del", id, NoBody) /\ UNCHANGED <<clientVars, migrateVars>>
    \/ \E k \in Slots : RaceQuery(k) /\ UNCHANGED <<clientVars, migrateVars>>
    \/ \E k \in Slots : RaceRespond(k) /\ UNCHANGED <<clientVars, migrateVars>>

SpecRace == RaceInit /\ [][RaceNext]_vars

-----------------------------------------------------------------------------
(* The client: App with its TodoForm and TodoList, calling the service
   through todoAPI.  A call is sent, the service handles it with the handler
   of its route, and the call settles in the client when the answer arrives;
   calls are handled and settle in any order. *)

\* calls that may be unsettled at once
MaxCalls == 2

\* filteredTodos.slice(0, 5)
DisplayLimit == 5

\* what the form sends: title, description, priority and category
mockTodoFormData ==
    [title |-> "New Test Todo", description |-> "This is a new test todo",
     priority |-> "high", category |-> "work"]
FormBodies == {mockTodoFormData}

\* the characters of a string: of the titles and descriptions of the
\* requests, of what is entered into the form and into the search box
Chars(s) ==
    CASE s = "" -> <<>>
      [] s = "  " -> <<" "," ">>
      [] s = " a " -> <<" ","a"," ">>
      [] s = "New Test Todo" -> 
           <<"N","e","w"," ","T","e",
             "s","t"," ","T","o","d","o">>
      [] s = "This is a new test todo" -> 
           <<"T","h","i","s"," ","i","s"," ","a"," ","n",
             "e","w"," ","t","e","s","t"," ","t","o","d","o">>
      [] s = "Test Todo" -> <<"T","e","s","t"," ","T","o","d","o">>
      [] s = "This is a test todo" -> 
           <<"T","h","i","s"," ","i","s"," ","a",
             " ","t","e","s","t"," ","t","o","d","o">>
      [] s = "Updated Title" -> 
           <<"U","p","d","a","t","e",
             "d"," ","T","i","t","l","e">>
      [] s = "Updated Description" -> 
           <<"U","p","d","a","t","e","d"," ","D",
             "e","s","c","r","i","p","t","i","o","n">>
      [] s = "Ab" -> <<"A","b">>
      [] s = "b" -> <<"b">>
      [] s = "c" -> <<"c">>
      [] s = "x" -> <<"x">>
      [] s = "aB" -> <<"a","B">>
      [] s = "ab" -> <<"a","b">>
      [] s = "B" -> <<"B">>
      [] s = "z" -> <<"z">>

WhiteSpace == {" "}

\* String.prototype.trim, on the characters
RECURSIVE TrimStart(_)
TrimStart(cs) ==
    IF cs # <<>> /\ cs[1] \in WhiteSpace THEN TrimStart(Tail(cs)) ELSE cs

RECURSIVE TrimEnd(_)
TrimEnd(cs) ==
    IF cs # <<>> /\ cs[Len(cs)] \in WhiteSpace
    THEN TrimEnd(SubSeq(cs, 1, Len(cs) - 1))
    ELSE cs

Trim(cs) == TrimEnd(TrimStart(cs))

\* mutant: the check of handleSubmit without trim()
Blank_NoTrim(text) == Chars(text) = <<>>

\* !text.trim()
Blank(text) == Trim(Chars(text)) = <<>>

FetchFailed == "Failed to fetch todos. Please check if the server is running."
CreateFailed == "Failed to create todo. Please try again."
DoneFailed == "Failed to mark todo as done. Please try again."

\* axios resolves a call answered with a 2xx status and rejects the others
Resolves(call) == call.res.status >= 200 /\ call.res.status < 300

\* response.data
Data(call) == call.res.body.v

\* allTodos.sort((a, b) => b.todo_id - a.todo_id): a stable sort; x goes
\* behind every e already placed with b.todo_id - a.todo_id <= 0 for (e, x)
RECURSIVE SortInsert(_, _)
SortInsert(sorted, x) ==
    IF sorted = <<>> THEN <<x>>
    ELSE IF x.todo_id - sorted[1].todo_id <= 0
         THEN <<sorted[1]>> \o SortInsert(Tail(sorted), x)
         ELSE <<x>> \o sorted

RECURSIVE SortFrom(_, _)
SortFrom(sorted, rest) ==
    IF rest = <<>> THEN sorted
    ELSE SortFrom(SortInsert(sorted, rest[1]), Tail(rest))

\* mutant: the fetched list is stored as it came
SortTodos_AsFetched(allTodos) == allTodos

SortTodos(allTodos) == SortFrom(<<>>, allTodos)

\* mutant: the new todo is put at the end
Prepend_AtEnd(newTodo, prevTodos) == Append(prevTodos, newTodo)

\* [newTodo, ...prevTodos]
Prepend(newTodo, prevTodos) == <<newTodo>> \o prevTodos

\* mutant: the entries up to that id are removed
Without_UpTo(prevTodos, todoId) ==
    LET Keep(todo) == todo.todo_id > todoId
    IN  SelectSeq(prevTodos, Keep)

\* prevTodos.filter(todo => todo.todo_id !== todoId)
Without(prevTodos, todoId) ==
    LET Keep(todo) == todo.todo_id # todoId
    IN  SelectSeq(prevTodos, Keep)

\* the sequence without its i-th element
Drop(s, i) == SubSeq(s, 1, i - 1) \o SubSeq(s, i + 1, Len(s))

\* String.prototype.toLowerCase, character by character
LowerChar(c) ==
    CASE c = "A" -> "a"
      [] c = "B" -> "b"
      [] c = "C" -> "c"
      [] c = "D" -> "d"
      [] c = "E" -> "e"
      [] c = "F" -> "f"
      [] c = "G" -> "g"
      [] c = "H" -> "h"
      [] c = "I" -> "i"
      [] c = "J" -> "j"
      [] c = "K" -> "k"
      [] c = "L" -> "l"
      [] c = "M" -> "m"
      [] c = "N" -> "n"
      [] c = "O" -> "o"
      [] c = "P" -> "p"
      [] c = "Q" -> "q"
      [] c = "R" -> "r"
      [] c = "S" -> "s"
      [] c = "T" -> "t"
      [] c = "U" -> "u"
      [] c = "V" -> "v"
      [] c = "W" -> "w"
      [] c = "X" -> "x"
      [] c = "Y" -> "y"
      [] c = "Z" -> "z"
      [] OTHER -> c

ToLowerCase(cs) == [i \in DOMAIN cs |-> LowerChar(cs[i])]

\* String.prototype.includes, on the characters
Includes(cs, sub) ==
    \E k \in 0..(Len(cs) - Len(sub)) : SubSeq(cs, k + 1, k + Len(sub)) = sub

\* value || fallback: null, undefined and '' give the fallback
OrElse(value, fallback) ==
    IF value \in {NULL, Undefined, ""} THEN fallback ELSE value

\* todo.title.toLowerCase().includes(searchTerm.toLowerCase()) || the same
\* of todo.description
MatchesSearch(todo, searchTerm) ==
    \/ Includes(ToLowerCase(Chars(todo.title)), ToLowerCase(Chars(searchTerm)))
    \/ Includes(ToLowerCase(Chars(todo.description)),
                ToLowerCase(Chars(searchTerm)))

\* mutant: a todo without a value passes no filter but 'all'
MatchesFilter_NoFallback(value, filter, fallback) ==
    filter = "all" \/ value = filter

\* filterPriority === 'all' || (todo.priority || 'medium') === filterPriority
MatchesFilter(value, filter, fallback) ==
    filter = "all" \/ OrElse(value, fallback) = filter

\* todos.filter(todo => matchesSearch && matchesPriority && matchesCategory)
FilteredTodos ==
    LET Keep(todo) ==
            /\ MatchesSearch(todo, filters.searchTerm)
            /\ MatchesFilter(todo.priority, filters.filterPriority, "medium")
            /\ MatchesFilter(todo.category, filters.filterCategory, "general")
    IN  SelectSeq(app.todos, Keep)

\* the first n entries of a list, all of them when it has fewer
Slice(list, n) == SubSeq(list, 1, IF Len(list) < n THEN Len(list) ELSE n)

\* the todos TodoList renders, each with its button
Rendered == Slice(FilteredTodos, DisplayLimit)

\* the service was used before this client started: some of the ids are
\* taken, some of their rows are left
ClientInit ==
    /\ \E n \in 0..MaxSeq :
          /\ seq = n
          /\ now = n
          /\ todos \in {{RaceRow(i) : i \in S} : S \in SUBSET (1..n)}
    /\ before = todos
    /\ req = Request("none", "", NoBody, "up")
    /\ res = ResNew
    /\ rejected = FALSE
    /\ created = {}
    /\ returned = <<>>
    /\ deleted = {}
    /\ submitted = [i \in {} |-> NoBody]
    /\ flight = [k \in Slots |-> Idle]
    /\ ran = <<>>
    /\ app = [todos |-> <<>>, loading |-> TRUE, error |-> NoError]
    /\ form = [formData |-> EmptyForm, isSubmitting |-> FALSE]
    /\ refused = {}
    /\ filters = NoFilters
    /\ net = <<>>
    /\ lists = 0
    /\ sentOps = {}
    /\ last = NoCall
    /\ prev = <<>>
    /\ columns = Columns
    /\ mig = NotRun

\* useEffect(() => { fetchTodos(); }, []) up to await todoAPI.getAllTodos()
Activate ==
    /\ lists = 0
    /\ app' = [app EXCEPT !.loading = TRUE, !.error = NoError]
    /\ net' = Append(net, Call("fetch", 0, NoBody))
    /\ lists' = lists + 1
    /\ sentOps' = sentOps \cup {"GET /todos"}
    /\ UNCHANGED <<serviceVars, raceVars, migrateVars, filters, form, refused, last, prev>>

\* the form holds formData, which passes the check of handleSubmit:
\* handleSubmit and addTodo up to await todoAPI.createTodo(todoData)
SubmitForm(formData) ==
    /\ lists > 0
    /\ ~form.isSubmitting
    /\ ~Blank(formData.title) /\ ~Blank(formData.description)
    /\ seq < MaxSeq
    /\ Len(net) < MaxCalls
    /\ form' = [form EXCEPT !.formData = formData, !.isSubmitting = TRUE]
    /\ net' = Append(net, Call("create", 0, formData))
    /\ sentOps' = sentOps \cup {"POST /todos"}
    /\ UNCHANGED <<serviceVars, raceVars, migrateVars, filters, app, refused, lists, last, prev>>

\* the button of a rendered todo: markAsDone up to await todoAPI.deleteTodo(todoId)
ClickDone(i) ==
    /\ ~app.loading
    /\ i \in DOMAIN Rendered
    /\ Len(net) < MaxCalls
    /\ net' = Append(net, Call("done", Rendered[i].todo_id, NoBody))
    /\ sentOps' = sentOps \cup {"DELETE /todos/:id"}
    /\ UNCHANGED <<serviceVars, raceVars, migrateVars, filters, app, form, refused, lists, last, prev>>

\* the service handles call i with the handler of its route
Handle(i, db) ==
    /\ i \in DOMAIN net
    /\ net[i].pc = "sent"
    /\ CASE net[i].kind = "fetch" -> GetTodos(db)
         [] net[i].kind = "create" -> PostTodos(net[i].body, db)
         [] net[i].kind = "done" -> DeleteTodo(ToString(net[i].id), db)
    /\ net' = [net EXCEPT ![i] = [@ EXCEPT !.pc = "answered", !.res = res']]
    /\ UNCHANGED <<raceVars, migrateVars, filters, app, form, refused, lists, sentOps, last, prev>>

\* mutant: fetchTodos without its finally block
FetchSettles_NoFinally(i) ==
    /\ i \in DOMAIN net
    /\ net[i].pc = "answered" /\ net[i].kind = "fetch"
    /\ app' = IF Resolves(net[i])
              THEN [app EXCEPT !.todos = SortTodos(Data(net[i])), !.loading = FALSE]
              ELSE [app EXCEPT !.error = FetchFailed]
    /\ net' = Drop(net, i)
    /\ last' = net[i]
    /\ prev' = app.todos
    /\ UNCHANGED <<serviceVars, raceVars, migrateVars, filters, form, refused, lists, sentOps>>

\* fetchTodos after its await: the try block or the catch block, then finally
FetchSettles(i) ==
    /\ i \in DOMAIN net
    /\ net[i].pc = "answered" /\ net[i].kind = "fetch"
    /\ app' = IF Resolves(net[i])
              THEN [app EXCEPT !.todos = SortTodos(Data(net[i])), !.loading = FALSE]
              ELSE [app EXCEPT !.error = FetchFailed, !.loading = FALSE]
    /\ net' = Drop(net, i)
    /\ last' = net[i]
    /\ prev' = app.todos
    /\ UNCHANGED <<serviceVars, raceVars, migrateVars, filters, form, refused, lists, sentOps>>

\* mutant: handleSubmit without its finally block
CreateSettles_NoFinally(i) ==
    /\ i \in DOMAIN net
    /\ net[i].pc = "answered" /\ net[i].kind = "create"
    /\ app' = IF Resolves(net[i])
              THEN [app EXCEPT !.todos = Prepend(Data(net[i]), app.todos)]
              ELSE [app EXCEPT !.error = CreateFailed]
    /\ form' = IF Resolves(net[i])
               THEN [form EXCEPT !.formData = EmptyForm, !.isSubmitting = FALSE]
               ELSE [form EXCEPT !.formData = EmptyForm]
    /\ net' = Drop(net, i)
    /\ last' = net[i]
    /\ prev' = app.todos
    /\ UNCHANGED <<serviceVars, raceVars, migrateVars, filters, refused, lists, sentOps>>

\* addTodo after its await, in its try block or its catch block; addTodo
\* returns either way, so that handleSubmit goes on behind its own await:
\* setFormData({ title: '', ... }), then the finally block
CreateSettles(i) ==
    /\ i \in DOMAIN net
    /\ net[i].pc = "answered" /\ net[i].kind = "create"
    /\ app' = IF Resolves(net[i])
              THEN [app EXCEPT !.todos = Prepend(Data(net[i]), app.todos)]
              ELSE [app EXCEPT !.error = CreateFailed]
    /\ form' = [form EXCEPT !.formData = EmptyForm, !.isSubmitting = FALSE]
    /\ net' = Drop(net, i)
    /\ last' = net[i]
    /\ prev' = app.todos
    /\ UNCHANGED <<serviceVars, raceVars, migrateVars, filters, refused, lists, sentOps>>

\* mutant: markAsDone takes the todo off the list also when the call failed
DoneSettles_RemovesAnyway(i) ==
    /\ i \in DOMAIN net
    /\ net[i].pc = "answered" /\ net[i].kind = "done"
    /\ app' = IF Resolves(net[i])
              THEN [app EXCEPT !.todos = Without(app.todos, net[i].id)]
              ELSE [app EXCEPT !.todos = Without(app.todos, net[i].id),
                               !.error = DoneFailed]
    /\ net' = Drop(net, i)
    /\ last' = net[i]
    /\ prev' = app.todos
    /\ UNCHANGED <<serviceVars, raceVars, migrateVars, filters, form, refused, lists, sentOps>>

\* markAsDone after its await
DoneSettles(i) ==
    /\ i \in DOMAIN net
    /\ net[i].pc = "answered" /\ net[i].kind = "done"
    /\ app' = IF Resolves(net[i])
              THEN [app EXCEPT !.todos = Without(app.todos, net[i].id)]
              ELSE [app EXCEPT !.error = DoneFailed]
    /\ net' = Drop(net, i)
    /\ last' = net[i]
    /\ prev' = app.todos
    /\ UNCHANGED <<serviceVars, raceVars, migrateVars, filters, form, refused, lists, sentOps>>

ClientNext ==
    \/ Activate
    \/ \E formData \in FormBodies : SubmitForm(formData)
    \/ \E i \in 1..DisplayLimit : ClickDone(i)
    \/ \E i \in 1..MaxCalls, db \in DbStates : Handle(i, db)
    \/ \E i \in 1..MaxCalls : FetchSettles(i)
    \/ \E i \in 1..MaxCalls : CreateSettles(i)
    \/ \E i \in 1..MaxCalls : DoneSettles(i)

SpecClient == ClientInit /\ [][ClientNext]_vars

-----------------------------------------------------------------------------
(* The form inside App, field by field: the user changes the fields and
   submits whatever the form holds. *)

\* what the user enters into the field of that name
Entered(name) ==
    CASE name \in {"title", "description"} -> {"", "  ", " a "}
      [] name = "priority" -> {"medium", "high"}
      [] name = "category" -> {"general", "work"}

\* handleChange; the inputs are disabled while the form is submitting
HandleChange(name, value) ==
    /\ ~form.isSubmitting
    /\ form.formData[name] # value
    /\ form' = [form EXCEPT !.formData[name] = value]
    /\ refused' = {}
    /\ UNCHANGED <<serviceVars, raceVars, migrateVars, filters, app, net, lists, sentOps, last, prev>>

\* handleSubmit up to its await; the button is disabled while the form is
\* submitting.  An empty field stops the submit at the input (required), a
\* field of spaces at the alert; the rest is forwarded to addTodo.
HandleSubmit ==
    /\ lists > 0
    /\ ~form.isSubmitting
    /\ IF Blank(form.formData.title) \/ Blank(form.formData.description)
       THEN /\ refused' = {form.formData}
            /\ UNCHANGED <<serviceVars, raceVars, migrateVars, filters, app, form, net, lists, sentOps,
                           last, prev>>
       ELSE SubmitForm(form.formData)

FormNext ==
    \/ Activate
    \/ \E name \in DOMAIN EmptyForm : \E value \in Entered(name) :
          HandleChange(name, value)
    \/ HandleSubmit
    \/ \E i \in 1..MaxCalls, db \in DbStates : Handle(i, db)
    \/ \E i \in 1..MaxCalls : FetchSettles(i)
    \/ \E i \in 1..MaxCalls : CreateSettles(i)

SpecForm == ClientInit /\ [][FormNext]_vars

-----------------------------------------------------------------------------
(* What App shows of its todos: the list comes with the answer to the fetch,
   and the user sets the search box and the two filters. *)

\* the longest list fetched
MaxView == 6

\* the todo with that id in the table: every title, description, priority
\* and category occurs, also no priority and no category
ViewTodo(n) ==
    [todo_id |-> n,
     title |-> <<"Ab", "b", "c">>[(n % 3) + 1],
     description |-> <<"x", "aB">>[(n % 2) + 1],
     priority |-> <<"high", NULL, "medium", "low">>[(n % 4) + 1],
     category |-> <<"work", NULL, "general", "work", "general">>[(n % 5) + 1],
     completed |-> "false", created_at |-> n]

\* the answers to the fetch: the first n todos, oldest first or newest first
ViewFetched ==
    {[i \in 1..n |-> ViewTodo(i)] : n \in 0..MaxView}
        \cup {[i \in 1..n |-> ViewTodo(n + 1 - i)] : n \in 0..MaxView}

SearchTerms == {"", "ab", "B", "z"}
PriorityFilters == {"all", "high", "medium", "low"}
CategoryFilters == {"all", "work", "general"}

\* App has sent the fetch and the service has answered it with allTodos
ViewInit ==
    /\ \E allTodos \in ViewFetched :
          /\ todos = {allTodos[i] : i \in DOMAIN allTodos}
          /\ seq = Len(allTodos)
          /\ now = Len(allTodos)
          /\ res = ResJson(ResNew, JsonArray(allTodos))
          /\ net = <<[Call("fetch", 0, NoBody) EXCEPT !.pc = "answered",
                         !.res = ResJson(ResNew, JsonArray(allTodos))]>>
    /\ before = todos
    /\ req = Request("GET /todos", "", NoBody, "up")
    /\ rejected = FALSE
    /\ created = {}
    /\ returned = <<>>
    /\ deleted = {}
    /\ submitted = [i \in {} |-> NoBody]
    /\ flight = [k \in Slots |-> Idle]
    /\ ran = <<>>
    /\ app = [todos |-> <<>>, loading |-> TRUE, error |-> NoError]
    /\ form = [formData |-> EmptyForm, isSubmitting |-> FALSE]
    /\ refused = {}
    /\ filters = NoFilters
    /\ lists = 1
    /\ sentOps = {"GET /todos"}
    /\ last = NoCall
    /\ prev = <<>>
    /\ columns = Columns
    /\ mig = NotRun

\* onChange={(e) => setSearchTerm(e.target.value)}
SetSearchTerm(value) ==
    /\ filters.searchTerm # value
    /\ filters' = [filters EXCEPT !.searchTerm = value]
    /\ UNCHANGED <<serviceVars, raceVars, migrateVars, app, form, refused, net, lists, sentOps,
                   last, prev>>

\* onChange={(e) => setFilterPriority(e.target.value)}
SetFilterPriority(value) ==
    /\ filters.filterPriority # value
    /\ filters' = [filters EXCEPT !.filterPriority = value]
    /\ UNCHANGED <<serviceVars, raceVars, migrateVars, app, form, refused, net, lists, sentOps,
                   last, prev>>

\* onChange={(e) => setFilterCategory(e.target.value)}
SetFilterCategory(value) ==
    /\ filters.filterCategory # value
    /\ filters' = [filters EXCEPT !.filterCategory = value]
    /\ UNCHANGED <<serviceVars, raceVars, migrateVars, app, form, refused, net, lists, sentOps,
                   last, prev>>

ViewNext ==
    \/ \E i \in 1..MaxCalls : FetchSettles(i)
    \/ \E value \in SearchTerms : SetSearchTerm(value)
    \/ \E value \in PriorityFilters : SetFilterPriority(value)
    \/ \E value \in CategoryFilters : SetFilterCategory(value)

SpecView == ViewInit /\ [][ViewNext]_vars

-----------------------------------------------------------------------------
(* migrate.js: the script run once against the database, one step for each
   statement it awaits *)

\* the columns a table from before the migration is sure to have, and the
\* columns migrate adds when they are missing
BaseColumns == {"todo_id", "title", "description"}
AddedColumns == Columns \ BaseColumns

\* a row as a table with the columns cols holds it
Restrict(row, cols) == [c \in cols |-> row[c]]

\* the rows a table may hold before the migration: validTodo's title and
\* description, or updateData's
ExistingRow(n, title) ==
    [todo_id |-> n, title |-> title,
     description |-> IF title = validTodo.title THEN validTodo.description
                     ELSE updateData.description,
     priority |-> "medium", category |-> "general", completed |-> "false",
     created_at |-> 0]

ExistingTitles == {validTodo.title, updateData.title}

ExistingTables(cols) ==
    {{Restrict(ExistingRow(n, title[n]), cols) : n \in ids} :
        <<ids, title>> \in {<<i, t>> \in (SUBSET (1..MaxSeq)) \X [1..MaxSeq -> ExistingTitles] :
                               \A n \in (1..MaxSeq) \ i : t[n] = validTodo.title}}

\* the largest todo_id of a table, 0 for an empty one
MaxId(tbl) ==
    IF tbl = {} THEN 0
    ELSE CHOOSE n \in {r.todo_id : r \in tbl} : \A r \in tbl : r.todo_id <= n

\* the parameters of the sample record, and the parameter of the cleanup
testParams == <<"Test Todo", "Test Description", "high", "health">>
cleanupTitle == "Test Todo"

\* the ALTER TABLE statements in the order the script awaits them: the column
\* and the DEFAULT of each (CURRENT_TIMESTAMP is read from the store clock)
AlterSteps == <<"priority", "category", "completed", "created_at">>

ColumnDefault(column, clock) ==
    CASE column = "priority" -> "medium"
      [] column = "category" -> "general"
      [] column = "completed" -> "false"
      [] column = "created_at" -> clock

\* ALTER TABLE todos ADD COLUMN IF NOT EXISTS column ... DEFAULT ...
\* every row already there gets the default in the new column
AddColumn(tbl, cols, column, clock) ==
    IF column \in cols THEN tbl
    ELSE {[c \in cols \cup {column} |->
              IF c = column THEN ColumnDefault(column, clock) ELSE r[c]] : r \in tbl}

\* DELETE FROM todos WHERE title = $1
DeleteByTitle(tbl, title) == {r \in tbl : r.title # title}

MigrateInit ==
    /\ columns \in {{}} \cup {BaseColumns \cup extra : extra \in SUBSET AddedColumns}
    /\ todos \in (IF columns = {} THEN {{}} ELSE ExistingTables(columns))
    /\ seq \in MaxId(todos)..MaxSeq
    /\ columns = {} => seq = 0
    /\ now = 1
    /\ req = Request("none", "", NoBody, "up")
    /\ res = ResNew
    /\ before = todos
    /\ rejected = FALSE
    /\ created = {}
    /\ returned = <<>>
    /\ deleted = {}
    /\ submitted = <<>>
    /\ flight = [k \in Slots |-> Idle]
    /\ ran = <<>>
    /\ app = [todos |-> <<>>, loading |-> TRUE, error |-> NoError]
    /\ form = [formData |-> EmptyForm, isSubmitting |-> FALSE]
    /\ refused = {}
    /\ filters = NoFilters
    /\ net = <<>>
    /\ lists = 0
    /\ sentOps = {}
    /\ last = NoCall
    /\ prev = <<>>
    /\ mig = [pc |-> "start", tableExists |-> FALSE, testResult |-> {},
              columns |-> columns]

\* what the script never touches
migrateFrame ==
    <<req, res, before, rejected, created, returned, deleted, submitted,
      raceVars, clientVars>>

\* catch (error): process.exit(1)
MigrateFailed ==
    /\ mig' = [mig EXCEPT !.pc = "exit1"]
    /\ UNCHANGED <<todos, seq, now, columns>>

\* SELECT EXISTS (... information_schema.tables WHERE table_name = 'todos')
MigrateCheckTable(db) ==
    /\ mig.pc = "start"
    /\ IF db = "down" THEN MigrateFailed
       ELSE /\ mig' = [mig EXCEPT !.tableExists = (columns # {}),
                                  !.pc = IF columns # {} THEN "alter1" ELSE "create"]
            /\ UNCHANGED <<todos, seq, now, columns>>
    /\ UNCHANGED migrateFrame

\* if (!tableExists.rows[0].exists): CREATE TABLE todos (...)
MigrateCreateTable(db) ==
    /\ mig.pc = "create"
    /\ IF db = "down" THEN MigrateFailed
       ELSE /\ columns' = Columns
            /\ todos' = {}
            /\ seq' = 0
            /\ mig' = [mig EXCEPT !.pc = "insert"]
            /\ UNCHANGED now
    /\ UNCHANGED migrateFrame

\* else: the four ALTER TABLE todos ADD COLUMN IF NOT EXISTS, one await each
MigrateAddColumn(k, db) ==
    /\ mig.pc = "alter" \o ToString(k)
    /\ IF db = "down" THEN MigrateFailed
       ELSE /\ todos' = AddColumn(todos, columns, AlterSteps[k], now)
            /\ columns' = columns \cup {AlterSteps[k]}
            /\ mig' = [mig EXCEPT !.pc = IF k < Len(AlterSteps)
                                         THEN "alter" \o ToString(k + 1)
                                         ELSE "insert"]
            /\ UNCHANGED <<seq, now>>
    /\ UNCHANGED migrateFrame

\* INSERT INTO todos (title, description, priority, category)
\*   VALUES ('Test Todo', 'Test Description', 'high', 'health') RETURNING *
MigrateInsertTest(db) ==
    /\ mig.pc = "insert"
    /\ LET testResult == PoolQuery(db, todos, seq, Insert(todos, seq, now, testParams))
       IN  /\ todos' = testResult.table
           /\ seq' = testResult.seq
           /\ now' = IF db = "up" THEN now + 1 ELSE now
           /\ mig' = [mig EXCEPT !.testResult = testResult.rows,
                                 !.pc = IF testResult.err THEN "exit1" ELSE "cleanup"]
           /\ UNCHANGED columns
    /\ UNCHANGED migrateFrame

\* DELETE FROM todos WHERE title = 'Test Todo', then process.exit(0)
MigrateCleanup(db) ==
    /\ mig.pc = "cleanup"
    /\ IF db = "down" THEN MigrateFailed
       ELSE /\ todos' = DeleteByTitle(todos, cleanupTitle)
            /\ mig' = [mig EXCEPT !.pc = "exit0"]
            /\ UNCHANGED <<seq, now, columns>>
    /\ UNCHANGED migrateFrame

MigrateNext ==
    \/ \E db \in DbStates : MigrateCheckTable(db)
    \/ \E db \in DbStates : MigrateCreateTable(db)
    \/ \E k \in 1..Len(AlterSteps), db \in DbStates : MigrateAddColumn(k, db)
    \/ \E db \in DbStates : MigrateInsertTest(db)
    \/ \E db \in DbStates : MigrateCleanup(db)

SpecMigrate == MigrateInit /\ [][MigrateNext]_vars

-----------------------------------------------------------------------------
(* What the claims speak of *)

CreateKeys == {"title", "description", "priority", "category"}

Post == "POST /todos"
List == "GET /todos"
Get == "GET /todos/:id"
Put == "PUT /todos/:id"
Del == "DELETE /todos/:id"

Updated == JsonObject([message |-> "Todo updated successfully"])
Deleted == JsonObject([message |-> "Todo deleted successfully"])

\* the ids of the records of a List response
ListedIds == {res.body.v[i].todo_id : i \in DOMAIN res.body.v}

\* what Get-by-id returns for a path id in the current store
Shown(id) == Rows0(SelectById(todos, seq, id).rows)

-----------------------------------------------------------------------------
(* C1 .. C10 *)

\* C1: round trip.  A Get-by-id of an id that a Create with all of title,
\* description, priority and category returned, with no Update or Delete sent
\* for that id in between, answers 200 with a record that has the four
\* submitted values, that id, a created_at and completed = false.
C1_RoundTrip ==
    \A id \in DOMAIN submitted :
        (req.op = Get /\ req.id = ToString(id) /\ req.db = "up") =>
            /\ res.status = 200
            /\ res.body.t = "object"
            /\ \A k \in CreateKeys : res.body.v[k] = submitted[id][k]
            /\ res.body.v.todo_id = id
            /\ res.body.v.created_at \in Nat
            /\ res.body.v.completed = "false"

C1_Witness ==
    /\ req.op = Get /\ req.db = "up"
    /\ \E id \in DOMAIN submitted : req.id = ToString(id)
    /\ Cardinality(todos) = 2

\* C2: defaults.  A Create whose body has only title and description stores
\* and returns a record with priority medium, category general and
\* completed false.
C2_Defaults ==
    (req.op = Post /\ DOMAIN req.body = {"title", "description"} /\ req.db = "up") =>
        /\ res.status = 200
        /\ res.body.t = "object"
        /\ res.body.v.title = req.body.title
        /\ res.body.v.description = req.body.description
        /\ res.body.v.priority = "medium"
        /\ res.body.v.category = "general"
        /\ res.body.v.completed = "false"
        /\ res.body.v \in todos
        /\ res.body.v \notin before

C2_Witness ==
    /\ req.op = Post /\ DOMAIN req.body = {"title", "description"} /\ req.db = "up"
    /\ res.status = 200

\* C3: list completeness.  From the empty store, after any Creates, Updates
\* and Deletes, List returns one record for every id a Create returned and no
\* Delete has removed since: the same ids, none twice, none more.
C3_ListCompleteness ==
    (req.op = List /\ req.db = "up") =>
        /\ res.status = 200
        /\ res.body.t = "array"
        /\ ListedIds = created \ deleted
        /\ Len(res.body.v) = Cardinality(created \ deleted)
        /\ \A i \in DOMAIN res.body.v : res.body.v[i] \in todos

C3_Witness ==
    /\ req.op = List /\ req.db = "up"
    /\ Len(res.body.v) = 1
    /\ deleted # {}
    /\ \E r \in todos : r.completed = "true"

\* C4: update overwrite.  An Update of an existing id with all five fields
\* answers the success message and Get-by-id then shows the five submitted
\* values; an Update of an id that matches no row answers the same message
\* with status 200 and leaves the store as it was.
C4_UpdateOverwrite ==
    (req.op = Put /\ req.db = "up") =>
        /\ (Matches(before, req.id) # {} /\ DOMAIN req.body = Keys) =>
              /\ res.status = 200 /\ res.body = Updated
              /\ Shown(req.id).t = "object"
              /\ \A k \in Keys : Shown(req.id).v[k] = req.body[k]
        /\ Matches(before, req.id) = {} =>
              /\ res.status = 200 /\ res.body = Updated
              /\ todos = before

\* C4, for the ids that the store can read as an integer
C4_WellFormedIds == IsInt4(req.id) => C4_UpdateOverwrite

\* C5: delete.  A Delete of an existing id answers the success message, and
\* from then on that id is in no List result and Get-by-id of it answers 200
\* with an empty body; a Delete of an id that matches no row answers the same
\* message and leaves the store as it was.
C5_DeleteIdempotent ==
    /\ (req.op = Del /\ req.db = "up") =>
          /\ res.status = 200 /\ res.body = Deleted
          /\ todos = before \ Matches(before, req.id)
    /\ (req.op = List /\ res.status = 200) => ListedIds \cap deleted = {}
    /\ (req.op = Get /\ req.db = "up" /\ \E d \in deleted : req.id = ToString(d)) =>
          /\ res.status = 200 /\ res.body = JsonUndefined

\* C5, for the ids that the store can read as an integer
C5_WellFormedIds == (req.op = Del => IsInt4(req.id)) => C5_DeleteIdempotent

\* C6: missing field.  A Create whose body lacks title or lacks description
\* (the empty body lacks both) answers 500 and the table holds the rows it
\* held before.
C6_MissingFieldRejected ==
    (req.op = Post /\ ~({"title", "description"} \subseteq DOMAIN req.body)) =>
        /\ res.status = 500
        /\ todos = before

C6_Witness ==
    /\ req.op = Post /\ req.db = "up"
    /\ DOMAIN req.body = {"description"}
    /\ before # {}

\* C7: not found.  Get-by-id of an id that matches no row answers 200 with an
\* empty body, never an error status, and the store is as it was.
C7_NotFoundIsNoError ==
    (req.op = Get /\ req.db = "up" /\ Matches(before, req.id) = {}) =>
        /\ res.status = 200
        /\ res.body = JsonUndefined
        /\ todos = before

\* C7, for the ids that the store can read as an integer
C7_WellFormedIds == IsInt4(req.id) => C7_NotFoundIsNoError

\* C8: store failure.  In each of the five handlers, when the store query
\* fails the handler sends one response, 500 with body 'Server Error' and
\* nothing else, and the table holds the rows it held before.
C8_StoreFailure ==
    /\ rejected =>
          /\ res.sent = 1
          /\ res.status = 500
          /\ res.body = Text("Server Error")
          /\ todos = before
    /\ (req.op # "none" /\ req.db = "down") => rejected

C8_Witness ==
    /\ rejected
    /\ req.op = Put /\ req.db = "up"
    /\ Matches(before, req.id) # {}

C10_PartialUpdate ==
    (/\ req.op = Put /\ req.db = "up" /\ Matches(before, req.id) # {}
     /\ DOMAIN req.body # {} /\ DOMAIN req.body # Keys) =>
        /\ res.status = 200
        /\ \A r \in Matches(todos, req.id) :
              \A old \in Matches(before, req.id) :
                  \A k \in Keys :
                      r[k] = IF k \in DOMAIN req.body THEN req.body[k] ELSE old[k]

-----------------------------------------------------------------------------
(* C11 .. C15 *)

\* C11: in every reachable state of the store, whatever Create, Update and
\* Delete requests were sent and whether they succeeded or failed, every row
\* has a title and a description that are not NULL.
C11_TitleDescriptionNotNull ==
    \A r \in todos : r.title # NULL /\ r.description # NULL

C11_Witness ==
    /\ req.op = Put /\ req.db = "up"
    /\ "description" \notin DOMAIN req.body
    /\ "title" \in DOMAIN req.body
    /\ Matches(todos, req.id) # {}
    /\ res.status = 500

\* C12: ids are never reused.  No two successful Creates return the same id,
\* also when the earlier row was deleted before the later Create, and the
\* stored rows have pairwise distinct ids.
C12_IdsNeverReused ==
    /\ \A i, j \in DOMAIN returned : i # j => returned[i] # returned[j]
    /\ \A r1, r2 \in todos : r1.todo_id = r2.todo_id => r1 = r2

C12_Witness ==
    /\ req.op = Post /\ res.status = 200
    /\ Len(returned) = 2
    /\ returned[1] \in deleted
    /\ before = {}

\* C13: frame.  An Update of id X changes nothing but title, description,
\* priority, category and completed of the row with id X, whose todo_id and
\* created_at stay; a Delete of id X removes only that row; a Create changes
\* no row that exists; Get-by-id and List leave the table as it is.
C13_Frame ==
    /\ req.op = Put =>
          /\ \A r \in before : ToString(r.todo_id) # req.id => r \in todos
          /\ \A r \in todos : ToString(r.todo_id) # req.id => r \in before
          /\ \A old \in Matches(before, req.id) :
                \E r \in todos : r.todo_id = old.todo_id /\ r.created_at = old.created_at
          /\ Cardinality(todos) = Cardinality(before)
    /\ req.op = Del =>
          /\ todos \subseteq before
          /\ \A r \in before : ToString(r.todo_id) # req.id => r \in todos
    /\ req.op = Post =>
          /\ before \subseteq todos
          /\ Cardinality(todos \ before) <= 1
    /\ req.op \in {Get, List} => todos = before

C13_Witness ==
    /\ req.op = Put /\ res.status = 200
    /\ Cardinality(before) = 2
    /\ Matches(before, req.id) # {}
    /\ todos # before

\* C14 as claimed: every stored row has a priority among low, medium, high
\* and a category among general, work, personal, shopping, health, learning.
C14_EnumsOnly ==
    \A r \in todos :
        /\ r.priority \in {"low", "medium", "high"}
        /\ r.category \in {"general", "work", "personal", "shopping", "health",
                           "learning"}

\* the values a Create or an Update body gave for key k so far can only be
\* those of the bodies of the requests
SentValues(k) ==
    {b[k] : b \in {c \in CreateBodies \cup UpdateBodies : k \in DOMAIN c}}

\* C14 as amended: the store takes priority and category as free text.  The
\* priority of a stored row is a priority that some request body gave, or
\* the default medium, or NULL; its category is a category that some request
\* body gave, or the default general, or NULL.
C14_FreeText ==
    \A r \in todos :
        /\ r.priority \in SentValues("priority") \cup {"medium", NULL}
        /\ r.category \in SentValues("category") \cup {"general", NULL}

C14_Witness ==
    /\ \E r \in todos : r.category = "testing" /\ r.priority = "high"
    /\ \E r \in todos : r.category = "updated" /\ r.priority = NULL

\* C15: the path id is opaque.  Get-by-id and Delete with an id that is not
\* a number answer 200, not an error, and leave the table as it is.
C15_OpaqueId ==
    (req.op \in {Get, Del} /\ req.db = "up" /\ ~IsInt4(req.id)) =>
        /\ res.status = 200
        /\ todos = before

\* both requests of the race were answered, for the same id, a row of which
\* was in the table when they were sent
RaceOver ==
    /\ \A k \in Slots : flight[k].pc = "done"
    /\ flight["put"].id = flight["del"].id
    /\ Matches(before, flight["del"].id) # {}

\* what the two operations leave of table tbl when applied one after the
\* other: whichever comes last, the row with that id is gone and the other
\* rows are as they were
OneAfterTheOther(tbl, id) == tbl \ Matches(tbl, id)

\* C16: when an Update and a Delete of the same existing id are in flight at
\* once, both are answered 200 with their message of success, and the table
\* that is left is the one the two operations give when applied one after the
\* other in the order the store ran them: the row is gone, the other rows
\* are as they were.
C16_RaceLastWins ==
    RaceOver =>
        /\ flight["put"].res.status = 200
        /\ flight["put"].res.body = Updated
        /\ flight["del"].res.status = 200
        /\ flight["del"].res.body = Deleted
        /\ todos = OneAfterTheOther(before, flight["del"].id)

\* the same for the Updates whose body has both title and description
C16_WithTitleAndDescription ==
    (RaceOver /\ {"title", "description"} \subseteq DOMAIN flight["put"].body) =>
        /\ flight["put"].res.status = 200
        /\ flight["del"].res.status = 200
        /\ todos = OneAfterTheOther(before, flight["del"].id)

\* the table that is left is the same whatever the body and the order
C16_FinalTable ==
    RaceOver => todos = OneAfterTheOther(before, flight["del"].id)

-----------------------------------------------------------------------------
(* C17 .. C20: the client *)

\* the message App shows when a call of that kind fails
FailedMessage(kind) ==
    CASE kind = "fetch" -> FetchFailed
      [] kind = "create" -> CreateFailed
      [] kind = "done" -> DoneFailed

Settled == last.kind # "none"

\* the ids of the entries of a list of todos, in order
IdsOf(list) == [i \in DOMAIN list |-> list[i].todo_id]

\* C17: the error of App.  When a fetch, a create or a mark-done fails, the
\* error is the fixed message of its kind; and when an operation of any kind
\* succeeds after that, the error is cleared: after the call that settled
\* last has failed the error is its message, after it has succeeded there
\* is no error.
C17_ErrorLifecycle ==
    Settled =>
        /\ ~Resolves(last) => app.error = FailedMessage(last.kind)
        /\ Resolves(last) => app.error = NoError

\* the first half: a failed call leaves the message of its kind
C17_FailureSetsMessage ==
    (Settled /\ ~Resolves(last)) => app.error = FailedMessage(last.kind)

\* what the code does instead of the second half: once there is an error it
\* stays, whatever succeeds later
C17_ErrorStays ==
    [][app.error # NoError => app'.error # NoError]_vars

\* C18: a create-intent sends one Create request.  When it succeeds, the
\* todos of App are the returned record followed by the todos as they were.
\* No List request is sent for it: the list is asked for once, on
\* activation.
C18_CreatePrepends ==
    /\ (last.kind = "create" /\ Resolves(last)) =>
          /\ Len(app.todos) = Len(prev) + 1
          /\ app.todos[1] = Data(last)
          /\ \A i \in DOMAIN prev : app.todos[i + 1] = prev[i]
    /\ Cardinality({i \in DOMAIN net : net[i].kind = "create"})
          = (IF form.isSubmitting THEN 1 ELSE 0)
    /\ lists <= 1
    /\ Cardinality({i \in DOMAIN net : net[i].kind = "fetch"}) <= lists
    /\ (\E i \in DOMAIN net : net[i].kind # "fetch") => lists = 1

C18_Witness ==
    /\ last.kind = "create" /\ Resolves(last)
    /\ Len(prev) >= 1
    /\ lists = 1
    /\ "POST /todos" \in sentOps

\* list a is list b with some entries left out, the others in b's order
IsSubsequence(a, b) ==
    \E f \in [DOMAIN a -> DOMAIN b] :
        /\ \A i, j \in DOMAIN a : i < j => f[i] < f[j]
        /\ \A i \in DOMAIN a : a[i] = b[f[i]]

\* C19: a mark-done-intent sends a Delete request for that id, and the client
\* never sends an Update, so that no todo gets completed true through the UI.
\* When the Delete succeeds, exactly the entries with that id leave the todos
\* of App, and the others keep their order.
C19_MarkDoneDeletes ==
    /\ sentOps \subseteq {List, Post, Del}
    /\ \A r \in todos : r.completed = "false"
    /\ \A i \in DOMAIN app.todos : app.todos[i].completed = "false"
    /\ \A i \in DOMAIN net : net[i].kind = "done" => Del \in sentOps
    /\ (last.kind = "done" /\ Resolves(last)) =>
          /\ \A i \in DOMAIN app.todos : app.todos[i].todo_id # last.id
          /\ Len(app.todos)
                = Cardinality({i \in DOMAIN prev : prev[i].todo_id # last.id})
          /\ IsSubsequence(app.todos, prev)

C19_Witness ==
    /\ last.kind = "done" /\ Resolves(last)
    /\ Len(prev) = 2
    /\ prev[1].todo_id = last.id
    /\ Len(app.todos) = 1
    /\ Matches(todos, ToString(last.id)) = {}

-----------------------------------------------------------------------------
(* C23, C26, C27, C29: the client and its calls *)

\* the calls of that kind that have not settled
Unsettled(kind) == {i \in DOMAIN net : net[i].kind = kind}

C26_NoDuplicates ==
    \A i, j \in DOMAIN app.todos :
        i # j => app.todos[i].todo_id # app.todos[j].todo_id

\* C27: the client being the only writer, when no call is unsettled and all
\* of them succeeded, the ids in the todos of App are the ids of the rows
\* of the table.
C27_AgreeAtRest ==
    (lists = 1 /\ net = <<>> /\ app.error = NoError) =>
        {app.todos[i].todo_id : i \in DOMAIN app.todos}
            = {r.todo_id : r \in todos}

\* C29: loading is true from activation until the fetch settles and false
\* from then on, whether the fetch succeeded or failed; no create and no
\* mark-done makes it true again.
C29_Loading ==
    /\ app.loading = (lists = 0 \/ Unsettled("fetch") # {})
    /\ (Settled /\ last.kind = "fetch") => ~app.loading
    /\ (Settled /\ last.kind # "fetch" /\ Unsettled("fetch") = {}) => ~app.loading

C29_Witness ==
    /\ last.kind = "create"
    /\ app.error = FetchFailed
    /\ ~app.loading
    /\ Len(app.todos) = 1

-----------------------------------------------------------------------------
(* C24, C25, C28: the form *)

\* the text is empty or has nothing but white space in it
OnlySpaces(text) == \A i \in DOMAIN Chars(text) : Chars(text)[i] = " "

\* a step in which a create call settles
CreateSettled ==
    /\ Len(net') < Len(net)
    /\ last'.kind = "create"

\* C24: the form forwards no create-intent with a title or a description
\* that is empty or only white space: no Create call and no Create request
\* carries one, and a submit that is turned down sends nothing and leaves
\* the fields of the form as they are.
C24_BlankNotForwarded ==
    /\ \A i \in Unsettled("create") :
          ~OnlySpaces(net[i].body.title) /\ ~OnlySpaces(net[i].body.description)
    /\ req.op = Post =>
          ~OnlySpaces(req.body.title) /\ ~OnlySpaces(req.body.description)
    /\ \A f \in refused :
          /\ OnlySpaces(f.title) \/ OnlySpaces(f.description)
          /\ form.formData = f
          /\ ~form.isSubmitting
          /\ Unsettled("create") = {}

C24_Witness ==
    /\ refused # {}
    /\ form.formData.title = " a "
    /\ form.formData.description = "  "
    /\ form.formData.priority = "high"
    /\ form.formData.category = "work"

\* the inputs and the button of the form: disabled={isSubmitting}
Disabled == form.isSubmitting

\* C25: from the submit that is forwarded until its create call settles the
\* form is submitting, its inputs and its button disabled, so that the form
\* has at most one create call unsettled and still holds what it forwarded;
\* when the call has settled, by success or by failure, the form is not
\* submitting and is enabled.
C25_Submitting ==
    /\ form.isSubmitting = (Unsettled("create") # {})
    /\ Disabled = (Unsettled("create") # {})
    /\ Cardinality(Unsettled("create")) <= 1
    /\ \A i \in Unsettled("create") : net[i].body = form.formData
    /\ (last.kind = "create" /\ Unsettled("create") = {}) => ~Disabled

C25_Witness ==
    /\ last.kind = "create" /\ ~Resolves(last)
    /\ Disabled
    /\ Cardinality(Unsettled("create")) = 1
    /\ app.error = CreateFailed

\* C28: the form in App is reset only after a create that succeeded.  When
\* the create call settles having failed, the form holds the title,
\* description, priority and category that were entered; when it settles
\* having succeeded, the form holds '', '', 'medium', 'general'.
C28_ResetOnlyOnSuccess ==
    [][CreateSettled =>
          form'.formData = IF Resolves(last') THEN EmptyForm ELSE last'.body]_vars

\* what the code does: the form is reset when the call settles, failed or not
C28_ResetEitherWay ==
    [][CreateSettled => form'.formData = EmptyForm]_vars

-----------------------------------------------------------------------------
(* C21, C22: what App shows *)

\* the search text occurs in the text, upper and lower case taken alike
OccursIn(term, text) ==
    LET t == Chars(term)
        x == Chars(text)
    IN  \E k \in 0..(Len(x) - Len(t)) :
            \A i \in DOMAIN t : LowerChar(x[k + i]) = LowerChar(t[i])

\* the todo satisfies the three criteria at once
Satisfies(todo) ==
    /\ OccursIn(filters.searchTerm, todo.title)
          \/ OccursIn(filters.searchTerm, todo.description)
    /\ \/ filters.filterPriority = "all"
       \/ todo.priority = filters.filterPriority
       \/ todo.priority = NULL /\ filters.filterPriority = "medium"
    /\ \/ filters.filterCategory = "all"
       \/ todo.category = filters.filterCategory
       \/ todo.category = NULL /\ filters.filterCategory = "general"

\* list a is exactly the entries of list b that satisfy the three criteria,
\* in the order of b
ExactlyTheSatisfying(a, b) ==
    /\ IsSubsequence(a, b)
    /\ \A i \in DOMAIN a : Satisfies(a[i])
    /\ Len(a) = Cardinality({i \in DOMAIN b : Satisfies(b[i])})

\* C21 as claimed: the list that is visible is exactly the stored todos that
\* satisfy the three criteria at once, and the full stored list when the
\* three criteria are at their defaults.
C21_VisibleIsAllSatisfying ==
    /\ ExactlyTheSatisfying(Rendered, app.todos)
    /\ filters = NoFilters => Rendered = app.todos

\* C21 as amended: the filtered list, whose length App shows as "found", is
\* exactly the stored todos that satisfy the three criteria at once, in
\* their order, and the full stored list when the three criteria are at
\* their defaults; the list that is visible is the first five entries of the
\* filtered list, all of them when they are five at most.
C21_FilterConjunction ==
    /\ ExactlyTheSatisfying(FilteredTodos, app.todos)
    /\ filters = NoFilters => FilteredTodos = app.todos
    /\ IsSubsequence(Rendered, FilteredTodos)
    /\ \A i \in DOMAIN Rendered : Rendered[i] = FilteredTodos[i]
    /\ Len(FilteredTodos) <= 5 => Rendered = FilteredTodos
    /\ Len(FilteredTodos) > 5 => Len(Rendered) = 5

C21_Witness ==
    /\ filters.filterPriority = "medium"
    /\ filters.filterCategory = "general"
    /\ filters.searchTerm = "ab"
    /\ Len(app.todos) = MaxView
    /\ Len(FilteredTodos) = 2
    /\ \E i \in DOMAIN FilteredTodos :
          FilteredTodos[i].priority = NULL /\ FilteredTodos[i].category = NULL

\* C22: the list rendered has five todos at most, and when more than five
\* were fetched it is the first five of the list as fetched.
C22_FirstFiveFetched ==
    /\ Len(Rendered) <= 5
    /\ (last.kind = "fetch" /\ Resolves(last) /\ filters = NoFilters
          /\ Len(Data(last)) > 5) =>
          Rendered = SubSeq(Data(last), 1, 5)

\* the first half, and what the code renders: the five newest of the fetched
C22_FiveNewest ==
    /\ Len(Rendered) <= 5
    /\ (last.kind = "fetch" /\ Resolves(last) /\ filters = NoFilters
          /\ Len(Data(last)) > 5) =>
          /\ Len(Rendered) = 5
          /\ \A i \in DOMAIN Rendered :
                Rendered[i].todo_id = Len(Data(last)) + 1 - i

\* the rows of the table as the table held them before the migration: each
\* row cut down to the columns the table had then
AsBefore == {Restrict(r, mig.columns) : r \in todos}

\* the script has run to completion: process.exit(0) was reached
Migrated == mig.pc = "exit0"

\* C30: the migration leaves existing data alone.  For every initial content
\* of the todos table, once migrate has run to completion the table holds
\* exactly the rows it held before, each with the values it had in the
\* columns it had; the sample record is gone again.
C30_ExistingDataKept == Migrated => AsBefore = before

\* C30, what the script does keep: once migrate has run to completion the
\* table holds exactly the rows it held before whose title is not the
\* title of the sample record, and the sample record is not among them.
C30_OtherTitlesKept ==
    Migrated =>
        /\ AsBefore = {r \in before : r.title # cleanupTitle}
        /\ mig.testResult \cap todos = {}
        /\ columns = Columns

\* C30: a migration has completed on a table that held a row titled like the
\* sample record and a row titled otherwise
C30_Witness ==
    /\ Migrated
    /\ \E r \in before : r.title = cleanupTitle
    /\ \E r \in before : r.title # cleanupTitle
    /\ mig.testResult # {}

=============================================================================
